---------------------------- MODULE Spec2Model ----------------------------
(***************************************************************************)
(* A model of ttt_pymongo: the TweetDB wrapper around one MongoDB          *)
(* database (src/src/utils.py) and the bulk loader load_raw_data that      *)
(* walks RAW_DATA_PATHS and pushes every data file through                 *)
(* TweetDB.insert_tweets.                                                  *)
(*                                                                         *)
(* The store is the set of collections of the active database and the      *)
(* documents of each.  Every TweetDB method is an operator from the store  *)
(* before the call to an outcome record: the value returned (or the        *)
(* exception raised), the store after the call and the store methods the   *)
(* call invoked, in order.  The answers of the store that the code reads   *)
(* (acknowledged, inserted_ids) are inputs of the operators.               *)
(***************************************************************************)
EXTENDS Integers, Sequences, FiniteSets, TLC

\* ------------------------------------------------------------------ bounds
MaxDocs == 2          \* documents a collection holds in the gateway runs
MaxBatch == 2         \* length of a tweet_list handed to insert_tweets
MaxFiles == 2         \* data files found under all of RAW_DATA_PATHS
MaxFileTweets == 1    \* records in one data file
MaxRuns == 2          \* calls of load_raw_data in one run of the program
MaxNames == 2         \* names in a list handed to count_tweets
MaxLimit == 1         \* limit_results of a query (0 is no limit)
MaxArgs == 3          \* length of the argument vector given to main.py
MaxCursor == 3        \* documents of a cursor handed to batched
MaxChunk == 2         \* chunk_size of batched

\* the tweet documents told apart
Tweets == {"t1", "t2"}

\* --------------------------------------------------------- program constants
\* COLLECTION_NAMES['raw']
COLLECTION_NAMES_raw == "raw"

\* the collection names a caller uses: the default one and another one
Names == {COLLECTION_NAMES_raw, "alt"}

\* RAW_DATA_PATHS, in the order of the dictionary: the TYPE of each group
RAW_DATA_PATHS ==
    << [key |-> "govt",   TYPE |-> "json"],
       [key |-> "indiv",  TYPE |-> "json"],
       [key |-> "news",   TYPE |-> "json"],
       [key |-> "random", TYPE |-> "json"],
       [key |-> "troll",  TYPE |-> "csv"] >>

Groups == 1..Len(RAW_DATA_PATHS)

\* ----------------------------------------------------------------- values
\* Python values: a list, or None
PyList(s) == [kind |-> "list", items |-> s]
PyNone == [kind |-> "None", items |-> <<>>]

SeqsUpTo(S, n) == UNION { [1..k -> S] : k \in 0..n }

\* the elements of s at the indexes in keep, in order
RECURSIVE Pick(_, _)
Pick(s, keep) ==
    IF s = <<>> THEN <<>>
    ELSE LET n == Len(s)
             front == Pick(SubSeq(s, 1, n - 1), keep)
         IN IF n \in keep THEN Append(front, s[n]) ELSE front

RECURSIVE Sum(_, _)
Sum(f, S) ==
    IF S = {} THEN 0
    ELSE LET x == CHOOSE y \in S : TRUE
         IN f[x] + Sum(f, S \ {x})

\* ------------------------------------------------------------------ state
VARIABLES
    db,               \* self._db: "None" or "Database"
    collection_list,  \* what self._db.list_collection_names() answers
    documents,        \* the documents of each collection, in insertion order
    files,            \* how many data files the directory of each group lists
    call,             \* the operation the last step ran, with its arguments
    ret,              \* what it returned, or the exception it raised
    store_calls,      \* the store methods it invoked, in order
    pc,               \* where load_raw_data stands
    frame,            \* the locals of load_raw_data
    events,           \* what load_raw_data did to the files so far, in order
    runs,             \* the calls of load_raw_data that ended, in order
    value,            \* the data the last step returned: a count, a list, a cursor
    argv,             \* the argument vector parse_args was given
    gen               \* the generator batched returned, and what it yielded

vars == << db, collection_list, documents, files, call, ret, store_calls,
           pc, frame, events, runs, value, argv, gen >>

store == << collection_list, documents >>

\* a store method invoked on a collection ("*" for the database itself)
StoreCall(m, c) == [m |-> m, c |-> c]

\* the outcome of a TweetDB method
Outcome(r, cl, docs, calls) == [ret |-> r, cl |-> cl, docs |-> docs, calls |-> calls]

\* an exception leaves the store as it was
Raised(e, calls) == Outcome(e, collection_list, documents, calls)

Returned(r, calls) == Outcome(r, collection_list, documents, calls)

\* the data a call returned: an int, a list of documents, or a cursor with
\* the documents it has yet to yield
Value(kind, n, docs) == [kind |-> kind, n |-> n, docs |-> docs]

NoValue == Value("none", 0, <<>>)

\* ------------------------------------------------------------- TweetDB
\* TweetDB.__init__: self._db is bound only when the database exists on the
\* server, and a database exists there only once it holds a collection
TweetDB_init(db_exists) == IF db_exists THEN "Database" ELSE "None"

\* TweetDB.collection_exists, once self._db is bound
collection_exists(cl, collection_name) == collection_name \in cl

ListCall == StoreCall("list_collection_names", "*")

\* TweetDB.drop_collection
drop_collection(collection_name) ==
    IF db = "None" THEN Raised("AttributeError", <<>>)
    ELSE IF collection_exists(collection_list, collection_name) = FALSE
    THEN Returned("None", << ListCall >>)
    ELSE Outcome("None", collection_list \ {collection_name},
                 [documents EXCEPT ![collection_name] = <<>>],
                 << ListCall, StoreCall("drop_collection", collection_name) >>)

\* create_collection without its overwrite_old_collection test: an existing
\* collection is dropped whatever the flag says
create_collection_always_drops(new_collection_name, overwrite_old_collection) ==
    IF db = "None" THEN Raised("AttributeError", <<>>)
    ELSE IF collection_exists(collection_list, new_collection_name)
    THEN LET d == drop_collection(new_collection_name)
         IN Outcome("None", d.cl, d.docs, << ListCall >> \o d.calls)
    ELSE Outcome("None", collection_list \cup {new_collection_name},
                 [documents EXCEPT ![new_collection_name] = <<>>],
                 << ListCall, StoreCall("create_collection", new_collection_name) >>)

\* TweetDB.create_collection
create_collection(new_collection_name, overwrite_old_collection) ==
    IF db = "None" THEN Raised("AttributeError", <<>>)
    ELSE IF collection_exists(collection_list, new_collection_name)
    THEN IF overwrite_old_collection = TRUE
         THEN LET d == drop_collection(new_collection_name)
              IN Outcome("None", d.cl, d.docs, << ListCall >> \o d.calls)
         ELSE Returned("None", << ListCall >>)
    ELSE Outcome("None", collection_list \cup {new_collection_name},
                 [documents EXCEPT ![new_collection_name] = <<>>],
                 << ListCall, StoreCall("create_collection", new_collection_name) >>)

\* What insert_many answers for a batch of n documents: whether the write was
\* acknowledged, and which documents of the batch it inserted
InsertManyResults(n) ==
    [acknowledged : BOOLEAN, inserted_ids : SUBSET (1..n)]

\* insert_tweets without the comparison of n_tweets and n_tweets_inserted
insert_tweets_count_unchecked(tweet_list, collection_name, validate, result) ==
    IF tweet_list.kind = "None" THEN Raised("TypeError", <<>>)
    ELSE LET n_tweets == Len(tweet_list.items) IN
    IF n_tweets = 0 THEN Returned("False", <<>>)
    ELSE IF db = "None" THEN Raised("AttributeError", <<>>)
    ELSE IF collection_exists(collection_list, collection_name) = FALSE
    THEN Returned("False", << ListCall >>)
    ELSE LET docs == [documents EXCEPT ![collection_name] =
                         @ \o Pick(tweet_list.items, result.inserted_ids)]
             calls == << ListCall, StoreCall("insert_many", collection_name) >>
         IN IF validate
            THEN IF result.acknowledged
                 THEN Outcome("True", collection_list, docs, calls)
                 ELSE Outcome("False", collection_list, docs, calls)
            ELSE Outcome("None", collection_list, docs, calls)

\* insert_tweets answering None, not False, for a collection that is absent
insert_tweets_rejects_with_none(tweet_list, collection_name, validate, result) ==
    IF tweet_list.kind = "None" THEN Raised("TypeError", <<>>)
    ELSE LET n_tweets == Len(tweet_list.items) IN
    IF n_tweets = 0 THEN Returned("False", <<>>)
    ELSE IF db = "None" THEN Raised("AttributeError", <<>>)
    ELSE IF collection_exists(collection_list, collection_name) = FALSE
    THEN Returned("None", << ListCall >>)
    ELSE LET docs == [documents EXCEPT ![collection_name] =
                         @ \o Pick(tweet_list.items, result.inserted_ids)]
             calls == << ListCall, StoreCall("insert_many", collection_name) >>
             n_tweets_inserted == Cardinality(result.inserted_ids)
         IN IF validate
            THEN IF result.acknowledged
                 THEN IF n_tweets = n_tweets_inserted
                      THEN Outcome("True", collection_list, docs, calls)
                      ELSE Outcome("False", collection_list, docs, calls)
                 ELSE Outcome("False", collection_list, docs, calls)
            ELSE Outcome("None", collection_list, docs, calls)

\* TweetDB.insert_tweets; result is the store's answer to insert_many
insert_tweets(tweet_list, collection_name, validate, result) ==
    IF tweet_list.kind = "None" THEN Raised("TypeError", <<>>)
    ELSE LET n_tweets == Len(tweet_list.items) IN
    IF n_tweets = 0 THEN Returned("False", <<>>)
    ELSE IF db = "None" THEN Raised("AttributeError", <<>>)
    ELSE IF collection_exists(collection_list, collection_name) = FALSE
    THEN Returned("False", << ListCall >>)
    ELSE LET docs == [documents EXCEPT ![collection_name] =
                         @ \o Pick(tweet_list.items, result.inserted_ids)]
             calls == << ListCall, StoreCall("insert_many", collection_name) >>
             n_tweets_inserted == Cardinality(result.inserted_ids)
         IN IF validate
            THEN IF result.acknowledged
                 THEN IF n_tweets = n_tweets_inserted
                      THEN Outcome("True", collection_list, docs, calls)
                      ELSE Outcome("False", collection_list, docs, calls)
                 ELSE Outcome("False", collection_list, docs, calls)
            ELSE Outcome("None", collection_list, docs, calls)

\* a document after update_many: the ones the filter matches get the new value
Updated(s, query_dict, update_dict) ==
    [j \in 1..Len(s) |-> IF s[j] \in query_dict THEN update_dict ELSE s[j]]

\* the documents delete_many leaves: the ones the filter does not match
RECURSIVE Remaining(_, _)
Remaining(s, query_dict) ==
    IF s = <<>> THEN <<>>
    ELSE LET rest == Remaining(Tail(s), query_dict)
         IN IF Head(s) \in query_dict THEN rest ELSE << Head(s) >> \o rest

\* What update_many and delete_many answer: whether the write was acknowledged
\* and whether the store applied it
WriteResults == [acknowledged : BOOLEAN, applied : BOOLEAN]

\* TweetDB.update_tweets; query_dict is the set of documents the filter
\* matches, update_dict the value the update gives them
update_tweets(collection, query_dict, update_dict, validate, update_result) ==
    IF db = "None" THEN Raised("AttributeError", <<>>)
    ELSE IF ~ collection_exists(collection_list, collection)
    THEN Returned("None", << ListCall >>)
    ELSE LET docs == IF update_result.applied
                     THEN [documents EXCEPT ![collection] =
                              Updated(@, query_dict, update_dict)]
                     ELSE documents
             calls == << ListCall, StoreCall("update_many", collection) >>
         IN IF validate /\ ~ update_result.acknowledged
            THEN Outcome("RuntimeError", collection_list, docs, calls)
            ELSE Outcome("None", collection_list, docs, calls)

\* TweetDB.delete_tweets
delete_tweets(collection, query_dict, validate, delete_result) ==
    IF db = "None" THEN Raised("AttributeError", <<>>)
    ELSE IF ~ collection_exists(collection_list, collection)
    THEN Returned("None", << ListCall >>)
    ELSE LET docs == IF delete_result.applied
                     THEN [documents EXCEPT ![collection] =
                              Remaining(@, query_dict)]
                     ELSE documents
             calls == << ListCall, StoreCall("delete_many", collection) >>
         IN IF validate /\ ~ delete_result.acknowledged
            THEN Outcome("RuntimeError", collection_list, docs, calls)
            ELSE Outcome("None", collection_list, docs, calls)

\* TweetDB.collection_exists as a caller meets it: list_collection_names is
\* asked of self._db, which is None when the database was missing
TweetDB_collection_exists(collection_name) ==
    IF db = "None" THEN Raised("AttributeError", <<>>)
    ELSE IF collection_exists(collection_list, collection_name)
    THEN Returned("True", << ListCall >>)
    ELSE Returned("False", << ListCall >>)

\* the `collections` argument of count_tweets: None, one name, a list of
\* names, or a value of another type
Collections(kind, names) == [kind |-> kind, names |-> names]

\* what estimated_document_count answers for each collection
Estimates == [Names -> 0..MaxDocs]

\* count_tweets, lines 467-476: the loop over a list of names, from the sum so
\* far and the store calls made so far
RECURSIVE CountLoop(_, _, _, _, _)
CountLoop(names, approximate, estimates, sum, calls) ==
    IF names = <<>> THEN [sum |-> sum, calls |-> calls]
    ELSE LET collection == Head(names) IN
         IF collection_exists(collection_list, collection)
         THEN IF approximate
              THEN CountLoop(Tail(names), approximate, estimates,
                             sum + estimates[collection],
                             calls \o << ListCall,
                                StoreCall("estimated_document_count", collection) >>)
              ELSE CountLoop(Tail(names), approximate, estimates,
                             sum + Len(documents[collection]),
                             calls \o << ListCall,
                                StoreCall("count_documents", collection) >>)
         ELSE CountLoop(Tail(names), approximate, estimates, sum,
                        calls \o << ListCall >>)

\* TweetDB.count_tweets: the outcome and the count returned
count_tweets(collections, approximate, estimates) ==
    IF collections.kind = "None"
    THEN [o |-> Returned("None", <<>>), v |-> NoValue]
    ELSE IF collections.kind = "str"
    THEN LET name == collections.names[1] IN
         IF db = "None" THEN [o |-> Raised("AttributeError", <<>>), v |-> NoValue]
         ELSE IF collection_exists(collection_list, name)
         THEN IF approximate
              THEN [o |-> Returned("int", << ListCall,
                             StoreCall("estimated_document_count", name) >>),
                    v |-> Value("int", estimates[name], <<>>)]
              ELSE [o |-> Returned("int", << ListCall,
                             StoreCall("count_documents", name) >>),
                    v |-> Value("int", Len(documents[name]), <<>>)]
         ELSE [o |-> Returned("None", << ListCall >>), v |-> NoValue]
    ELSE IF collections.kind = "list"
    THEN IF db = "None" /\ collections.names # <<>>
         THEN [o |-> Raised("AttributeError", <<>>), v |-> NoValue]
         ELSE LET l == CountLoop(collections.names, approximate, estimates, 0, <<>>)
              IN [o |-> Returned("int", l.calls), v |-> Value("int", l.sum, <<>>)]
    ELSE [o |-> Returned("None", <<>>), v |-> NoValue]

\* what a cursor of find yields: the documents of s the filter matches, in
\* the store's order, at most limit_results of them unless limit_results is 0
Found(s, query_dict, limit_results) ==
    LET matched == Remaining(s, Tweets \ query_dict)
    IN IF limit_results > 0 /\ Len(matched) > limit_results
       THEN SubSeq(matched, 1, limit_results)
       ELSE matched

\* [doc for doc in result]: the list built by drawing from the cursor until
\* it is exhausted
RECURSIVE Drain(_, _)
Drain(cursor, list) ==
    IF cursor = <<>> THEN list
    ELSE Drain(Tail(cursor), Append(list, Head(cursor)))

\* TweetDB.query; query_dict is the set of documents the filter matches. A
\* returned Cursor holds the documents it has yet to yield and the number
\* already drawn from it
query(collection, query_dict, limit_results, lazy) ==
    IF db = "None" THEN [o |-> Raised("AttributeError", <<>>), v |-> NoValue]
    ELSE IF ~ collection_exists(collection_list, collection)
    THEN [o |-> Returned("None", << ListCall >>), v |-> NoValue]
    ELSE LET result == Found(documents[collection], query_dict, limit_results)
             calls == << ListCall, StoreCall("find", collection) >>
         IN IF lazy
            THEN [o |-> Returned("Cursor", calls), v |-> Value("Cursor", 0, result)]
            ELSE LET list == Drain(result, <<>>)
                 IN [o |-> Returned("list", calls),
                     v |-> Value("list", Len(list), list)]

\* ------------------------------------------------------- gateway steps
\* the operation a step ran: its name, the collection it names, the length of
\* its record list (-1 for None), its flag (validate, overwrite, drop,
\* approximate or lazy) and the store's answer it read; `collections` is the
\* argument of count_tweets, query_dict and limit_results those of query
Call(op, c, n, flag, ack, n_ids) ==
    [op |-> op, collection |-> c, n_tweets |-> n, flag |-> flag,
     acknowledged |-> ack, n_inserted |-> n_ids,
     collections |-> Collections("None", <<>>),
     query_dict |-> {}, limit_results |-> 0]

QueryCall(collection, query_dict, limit_results, lazy) ==
    [ Call("query", collection, 0, lazy, FALSE, 0)
      EXCEPT !.query_dict = query_dict, !.limit_results = limit_results ]

CountCall(collections, approximate) ==
    [ Call("count_tweets", "*", 0, approximate, FALSE, 0)
      EXCEPT !.collections = collections ]

NoCall == Call("none", "*", 0, FALSE, FALSE, 0)

NoFrame == [raw_collection_name |-> "*", drop_old_data |-> FALSE, k |-> 0,
            data_file_list |-> <<>>, i |-> 0,
            loaded_tweets |-> PyNone, result |-> "None", clean |-> TRUE]

\* the step leaves load_raw_data where it was
LoaderIdle == pc = "idle" /\ UNCHANGED << files, pc, frame, events, runs >>

\* the generator of batched before batched was called
NoGen == [cursor |-> <<>>, chunk_size |-> 0, show_progress_bar |-> FALSE,
          progress_bar_n_chunks |-> 0, pending |-> <<>>, chunks |-> <<>>,
          progress_bar |-> 0, state |-> "none"]

\* the step ends with outcome o of operation c, which returned the data v
FinishValue(c, o, v) ==
    /\ call' = c
    /\ ret' = o.ret
    /\ store_calls' = o.calls
    /\ collection_list' = o.cl
    /\ documents' = o.docs
    /\ value' = v
    /\ UNCHANGED << db, argv, gen >>

\* the step ends with outcome o of operation c
Finish(c, o) == FinishValue(c, o, NoValue)

CreateCollection ==
    \E name \in Names, overwrite \in BOOLEAN :
        /\ LoaderIdle
        /\ Finish(Call("create_collection", name, 0, overwrite, FALSE, 0),
                  create_collection(name, overwrite))

DropCollection ==
    \E name \in Names :
        /\ LoaderIdle
        /\ Finish(Call("drop_collection", name, 0, FALSE, FALSE, 0),
                  drop_collection(name))

\* the record lists a caller hands over: lists of tweets, and None
TweetLists == { PyList(s) : s \in SeqsUpTo(Tweets, MaxBatch) } \cup {PyNone}

PyLen(v) == IF v.kind = "None" THEN -1 ELSE Len(v.items)

InsertTweets ==
    \E tweet_list \in TweetLists, name \in Names, validate \in BOOLEAN :
        \E result \in InsertManyResults(Len(tweet_list.items)) :
            /\ LoaderIdle
            /\ Len(documents[name]) + Len(tweet_list.items) <= MaxDocs
            /\ Finish(Call("insert_tweets", name, PyLen(tweet_list), validate,
                           result.acknowledged, Cardinality(result.inserted_ids)),
                      insert_tweets(tweet_list, name, validate, result))

UpdateTweets ==
    \E name \in Names, query_dict \in SUBSET Tweets, update_dict \in Tweets,
       validate \in BOOLEAN, update_result \in WriteResults :
        /\ LoaderIdle
        /\ Finish(Call("update_tweets", name, 0, validate,
                       update_result.acknowledged, 0),
                  update_tweets(name, query_dict, update_dict, validate, update_result))

DeleteTweets ==
    \E name \in Names, query_dict \in SUBSET Tweets,
       validate \in BOOLEAN, delete_result \in WriteResults :
        /\ LoaderIdle
        /\ Finish(Call("delete_tweets", name, 0, validate,
                       delete_result.acknowledged, 0),
                  delete_tweets(name, query_dict, validate, delete_result))

CollectionExists ==
    \E name \in Names :
        /\ LoaderIdle
        /\ Finish(Call("collection_exists", name, 0, FALSE, FALSE, 0),
                  TweetDB_collection_exists(name))

\* the arguments a caller gives count_tweets for `collections`
CollectionsArgs ==
    { Collections("list", l) : l \in SeqsUpTo(Names, MaxNames) }
    \cup { Collections("str", << c >>) : c \in Names }
    \cup { Collections("None", <<>>), Collections("other", <<>>) }

CountTweets ==
    \E collections \in CollectionsArgs, approximate \in BOOLEAN :
        \E estimates \in IF approximate THEN Estimates
                          ELSE { [c \in Names |-> 0] } :
            LET r == count_tweets(collections, approximate, estimates)
            IN /\ LoaderIdle
               /\ FinishValue(CountCall(collections, approximate), r.o, r.v)

Query ==
    \E name \in Names, query_dict \in SUBSET Tweets,
       limit_results \in 0..MaxLimit, lazy \in BOOLEAN :
        LET r == query(name, query_dict, limit_results, lazy)
        IN /\ LoaderIdle
           /\ FinishValue(QueryCall(name, query_dict, limit_results, lazy),
                          r.o, r.v)

\* ------------------------------------------------------------ the store
\* the stores a TweetDB can be constructed over: no database at all, or a
\* database with some of the collections, each with some documents
StoreStates(n) ==
    { s \in [cl : SUBSET Names, docs : [Names -> SeqsUpTo(Tweets, n)]] :
        \A c \in Names \ s.cl : s.docs[c] = <<>> }

NoFiles == [k \in Groups |-> 0]

InitStore(n) ==
    \E db_exists \in BOOLEAN, s \in StoreStates(n) :
        /\ db = TweetDB_init(db_exists)
        /\ db_exists = FALSE => s.cl = {}
        /\ collection_list = s.cl
        /\ documents = s.docs

Init ==
    /\ InitStore(1)
    /\ files = NoFiles
    /\ call = NoCall
    /\ ret = "None"
    /\ store_calls = <<>>
    /\ pc = "idle"
    /\ frame = NoFrame
    /\ events = <<>>
    /\ runs = <<>>
    /\ value = NoValue
    /\ argv = <<>>
    /\ gen = NoGen

Next ==
    \/ CreateCollection
    \/ DropCollection
    \/ InsertTweets
    \/ UpdateTweets
    \/ DeleteTweets

Spec == Init /\ [][Next]_vars

\* the read operations of the gateway, over every store a TweetDB can be
\* constructed on
InitRead ==
    /\ InitStore(MaxDocs)
    /\ files = NoFiles
    /\ call = NoCall
    /\ ret = "None"
    /\ store_calls = <<>>
    /\ pc = "idle"
    /\ frame = NoFrame
    /\ events = <<>>
    /\ runs = <<>>
    /\ value = NoValue
    /\ argv = <<>>
    /\ gen = NoGen

NextRead ==
    \/ CollectionExists
    \/ CountTweets
    \/ Query

SpecRead == InitRead /\ [][NextRead]_vars

\* --------------------------------------------------------- the data files
\* get_data_file_list: the paths of the files with the group's extension in
\* the group's directory, none when the directory is missing
get_data_file_list(k) == [j \in 1..files[k] |-> j]

\* what a data file holds when it is read: some records, nothing at all (the
\* path is gone), or text that is no JSON
FileContents(file_type) ==
    { [kind |-> "records", n |-> n] : n \in 0..MaxFileTweets }
    \cup { [kind |-> "absent", n |-> 0] }
    \cup IF file_type = "json" THEN { [kind |-> "malformed", n |-> 0] } ELSE {}

\* the records of a file with n of them
FileTweets(n) == [j \in 1..n |-> IF j % 2 = 1 THEN "t1" ELSE "t2"]

Loaded(v) == [raised |-> "no", value |-> v]

\* load_json_file: None when the path does not exist, json.load otherwise
load_json_file(content) ==
    IF content.kind = "absent" THEN Loaded(PyNone)
    ELSE IF content.kind = "malformed"
    THEN [raised |-> "JSONDecodeError", value |-> PyNone]
    ELSE Loaded(PyList(FileTweets(content.n)))

\* load_csv_file: None when the path does not exist, the rows otherwise
load_csv_file(content) ==
    IF content.kind = "absent" THEN Loaded(PyNone)
    ELSE Loaded(PyList(FileTweets(content.n)))

\* ----------------------------------------------------------- load_raw_data
Exceptions == {"AttributeError", "TypeError", "RuntimeError", "JSONDecodeError"}

\* something load_raw_data did to file i of group k: it loaded n records, it
\* got result from insert_tweets, it printed the error notice
Event(e, k, i, n, result) == [e |-> e, k |-> k, i |-> i, n |-> n, result |-> result]

\* the number of documents of a collection, none when it does not exist
CountOf(cl, docs, c) == IF c \in cl THEN Len(docs[c]) ELSE 0

\* load_raw_data ends, returning or raising r
Terminate(r, name, drop, ev, clean) ==
    /\ pc' = "idle"
    /\ frame' = NoFrame
    /\ events' = <<>>
    /\ runs' = Append(runs, [ret |-> r, target |-> name, drop_old_data |-> drop,
                             count |-> CountOf(collection_list', documents', name),
                             events |-> ev, clean |-> clean])

\* load_raw_data without its check for an existing collection
LoadRawDataBegin_unchecked(raw_collection_name_arg, drop_old_data) ==
    LET raw_collection_name ==
            IF raw_collection_name_arg = "None" THEN COLLECTION_NAMES_raw
            ELSE raw_collection_name_arg
        c == Call("load_raw_data", raw_collection_name_arg, 0, drop_old_data, FALSE, 0)
    IN /\ pc = "idle"
       /\ UNCHANGED files
       /\ IF db = "None"
          THEN /\ Finish(c, Raised("AttributeError", <<>>))
               /\ Terminate("AttributeError", raw_collection_name, drop_old_data,
                            <<>>, TRUE)
          ELSE /\ Finish(c, Returned("running", << ListCall >>))
               /\ pc' = "create"
               /\ frame' = [NoFrame EXCEPT
                               !.raw_collection_name = raw_collection_name,
                               !.drop_old_data = drop_old_data]
               /\ UNCHANGED << events, runs >>

\* lines 594-602: resolve the target and check for an existing collection
LoadRawDataBegin(raw_collection_name_arg, drop_old_data) ==
    LET raw_collection_name ==
            IF raw_collection_name_arg = "None" THEN COLLECTION_NAMES_raw
            ELSE raw_collection_name_arg
        c == Call("load_raw_data", raw_collection_name_arg, 0, drop_old_data, FALSE, 0)
    IN /\ pc = "idle"
       /\ UNCHANGED files
       /\ IF db = "None"
          THEN /\ Finish(c, Raised("AttributeError", <<>>))
               /\ Terminate("AttributeError", raw_collection_name, drop_old_data,
                            <<>>, TRUE)
          ELSE IF collection_exists(collection_list, raw_collection_name)
                  /\ drop_old_data = FALSE
          THEN /\ Finish(c, Returned("None", << ListCall >>))
               /\ Terminate("None", raw_collection_name, drop_old_data, <<>>, TRUE)
          ELSE /\ Finish(c, Returned("running", << ListCall >>))
               /\ pc' = "create"
               /\ frame' = [NoFrame EXCEPT
                               !.raw_collection_name = raw_collection_name,
                               !.drop_old_data = drop_old_data]
               /\ UNCHANGED << events, runs >>

\* lines 604-609: create the collection
LoadRawDataCreate ==
    /\ pc = "create"
    /\ Finish(Call("create_collection", frame.raw_collection_name, 0,
                   frame.drop_old_data, FALSE, 0),
              create_collection(frame.raw_collection_name, frame.drop_old_data))
    /\ pc' = "group"
    /\ frame' = [frame EXCEPT !.k = 1]
    /\ UNCHANGED << files, events, runs >>

\* lines 612-625: the next group of RAW_DATA_PATHS and its data files
LoadRawDataGroup ==
    /\ pc = "group"
    /\ frame.k <= Len(RAW_DATA_PATHS)
    /\ Finish(Call("get_data_file_list", "*", 0, FALSE, FALSE, 0),
              Returned("running", <<>>))
    /\ IF RAW_DATA_PATHS[frame.k].TYPE \in {"json", "csv"}
       THEN /\ pc' = "file"
            /\ frame' = [frame EXCEPT !.data_file_list = get_data_file_list(frame.k),
                                      !.i = 1]
       ELSE /\ pc' = "group"
            /\ frame' = [frame EXCEPT !.k = @ + 1]
    /\ UNCHANGED << files, events, runs >>

\* line 612, after the last group: load_raw_data returns
LoadRawDataReturn ==
    /\ pc = "group"
    /\ frame.k > Len(RAW_DATA_PATHS)
    /\ Finish(Call("load_raw_data", frame.raw_collection_name, 0,
                   frame.drop_old_data, FALSE, 0),
              Returned("None", <<>>))
    /\ Terminate("None", frame.raw_collection_name, frame.drop_old_data,
                 events, frame.clean)
    /\ UNCHANGED files

\* line 628, after the last file of the group
LoadRawDataGroupDone ==
    /\ pc = "file"
    /\ frame.i > Len(frame.data_file_list)
    /\ Finish(Call("next_group", "*", 0, FALSE, FALSE, 0), Returned("running", <<>>))
    /\ pc' = "group"
    /\ frame' = [frame EXCEPT !.k = @ + 1, !.data_file_list = <<>>, !.i = 0]
    /\ UNCHANGED << files, events, runs >>

\* a loop that catches what the loader raises and goes on with no records
LoadRawDataLoad_catches ==
    /\ pc = "file"
    /\ frame.i <= Len(frame.data_file_list)
    /\ \E content \in FileContents(RAW_DATA_PATHS[frame.k].TYPE) :
        LET loaded == IF RAW_DATA_PATHS[frame.k].TYPE = "json"
                      THEN load_json_file(content)
                      ELSE load_csv_file(content)
            ev == Append(events, Event("load", frame.k, frame.i, PyLen(loaded.value),
                                       IF loaded.raised # "no" THEN loaded.raised
                                       ELSE "-"))
        IN /\ Finish(Call("file_loader", "*", PyLen(loaded.value), FALSE, FALSE, 0),
                     Returned("running", <<>>))
           /\ pc' = "insert"
           /\ frame' = [frame EXCEPT !.loaded_tweets = loaded.value]
           /\ events' = ev
           /\ UNCHANGED runs
    /\ UNCHANGED files

\* lines 628-630: load the next data file with the loader of the group
LoadRawDataLoad ==
    /\ pc = "file"
    /\ frame.i <= Len(frame.data_file_list)
    /\ \E content \in FileContents(RAW_DATA_PATHS[frame.k].TYPE) :
        LET loaded == IF RAW_DATA_PATHS[frame.k].TYPE = "json"
                      THEN load_json_file(content)
                      ELSE load_csv_file(content)
            ev == Append(events, Event("load", frame.k, frame.i, PyLen(loaded.value),
                                       IF loaded.raised # "no" THEN loaded.raised
                                       ELSE "-"))
        IN IF loaded.raised # "no"
           THEN /\ Finish(Call("file_loader", "*", 0, FALSE, FALSE, 0),
                          Raised(loaded.raised, <<>>))
                /\ Terminate(loaded.raised, frame.raw_collection_name,
                             frame.drop_old_data, ev, frame.clean)
           ELSE /\ Finish(Call("file_loader", "*", PyLen(loaded.value), FALSE, FALSE, 0),
                          Returned("running", <<>>))
                /\ pc' = "insert"
                /\ frame' = [frame EXCEPT !.loaded_tweets = loaded.value]
                /\ events' = ev
                /\ UNCHANGED runs
    /\ UNCHANGED files

\* the store answered as it should: acknowledged, every document inserted
CleanResult(n, result) ==
    result.acknowledged /\ result.inserted_ids = 1..n

\* lines 632-636: insert the loaded records
LoadRawDataInsert ==
    /\ pc = "insert"
    /\ \E result \in InsertManyResults(Len(frame.loaded_tweets.items)) :
        LET o == insert_tweets(frame.loaded_tweets, COLLECTION_NAMES_raw, TRUE, result)
            ev == Append(events, Event("insert", frame.k, frame.i,
                                       PyLen(frame.loaded_tweets), o.ret))
            sent == \E j \in 1..Len(o.calls) : o.calls[j].m = "insert_many"
            clean == frame.clean
                     /\ (sent => CleanResult(Len(frame.loaded_tweets.items), result))
        IN /\ Finish(Call("insert_tweets", COLLECTION_NAMES_raw,
                          PyLen(frame.loaded_tweets), TRUE,
                          result.acknowledged, Cardinality(result.inserted_ids)), o)
           /\ IF o.ret \in Exceptions
              THEN Terminate(o.ret, frame.raw_collection_name, frame.drop_old_data,
                             ev, clean)
              ELSE /\ pc' = "report"
                   /\ frame' = [frame EXCEPT !.result = o.ret, !.clean = clean]
                   /\ events' = ev
                   /\ UNCHANGED runs
    /\ UNCHANGED files

\* the report of a loop that gives up at the first file that failed
LoadRawDataReport_halts ==
    /\ pc = "report"
    /\ Finish(Call("report", "*", PyLen(frame.loaded_tweets), FALSE, FALSE, 0),
              Returned("running", <<>>))
    /\ UNCHANGED files
    /\ IF frame.result = "False"
       THEN Terminate("None", frame.raw_collection_name, frame.drop_old_data,
                      Append(events, Event("error", frame.k, frame.i,
                                           PyLen(frame.loaded_tweets), "False")),
                      frame.clean)
       ELSE /\ pc' = "file"
            /\ frame' = [frame EXCEPT !.i = @ + 1, !.loaded_tweets = PyNone,
                                      !.result = "None"]
            /\ UNCHANGED << events, runs >>

\* the report of a loop that passes over the file after the one it reports on
LoadRawDataReport_skips ==
    /\ pc = "report"
    /\ Finish(Call("report", "*", PyLen(frame.loaded_tweets), FALSE, FALSE, 0),
              Returned("running", <<>>))
    /\ events' = IF frame.result = "False"
                 THEN Append(events, Event("error", frame.k, frame.i,
                                           PyLen(frame.loaded_tweets), "False"))
                 ELSE events
    /\ pc' = "file"
    /\ frame' = [frame EXCEPT !.i = @ + 2, !.loaded_tweets = PyNone,
                              !.result = "None"]
    /\ UNCHANGED << files, runs >>

\* lines 638-643: report on the file and go on to the next one
LoadRawDataReport ==
    /\ pc = "report"
    /\ Finish(Call("report", "*", PyLen(frame.loaded_tweets), FALSE, FALSE, 0),
              Returned("running", <<>>))
    /\ events' = IF frame.result = "False"
                 THEN Append(events, Event("error", frame.k, frame.i,
                                           PyLen(frame.loaded_tweets), "False"))
                 ELSE events
    /\ pc' = "file"
    /\ frame' = [frame EXCEPT !.i = @ + 1, !.loaded_tweets = PyNone,
                              !.result = "None"]
    /\ UNCHANGED << files, runs >>

LoadRawDataStep ==
    \/ LoadRawDataCreate
    \/ LoadRawDataGroup
    \/ LoadRawDataReturn
    \/ LoadRawDataGroupDone
    \/ LoadRawDataLoad
    \/ LoadRawDataInsert
    \/ LoadRawDataReport

\* the directories the loader can meet: at most MaxFiles data files in all
FileSystems == { f \in [Groups -> 0..MaxFiles] : Sum(f, Groups) <= MaxFiles }

InitLoad ==
    /\ InitStore(1)
    /\ files \in FileSystems
    /\ call = NoCall
    /\ ret = "None"
    /\ store_calls = <<>>
    /\ pc = "idle"
    /\ frame = NoFrame
    /\ events = <<>>
    /\ runs = <<>>
    /\ value = NoValue
    /\ argv = <<>>
    /\ gen = NoGen

\* a caller of load_raw_data, with a collection name of its own or the default
LoadRawData ==
    \E name \in Names \cup {"None"}, drop \in BOOLEAN :
        /\ runs = <<>>
        /\ LoadRawDataBegin(name, drop)

NextLoad ==
    \/ LoadRawData
    \/ LoadRawDataStep

SpecLoad == InitLoad /\ [][NextLoad]_vars

\* main.py, parse_args with --load-data: a TweetDB with the defaults and a
\* full reload, once per run of the command
ParseArgsLoadData ==
    /\ Len(runs) < MaxRuns
    /\ LoadRawDataBegin("None", TRUE)

NextReload ==
    \/ ParseArgsLoadData
    \/ LoadRawDataStep

SpecReload == InitLoad /\ [][NextReload]_vars

\* ------------------------------------------------------------ parse_args
\* the words of an argument vector, and the vectors sys.argv can be
ArgWords == {"main.py", "--load-data", "--help"}

ArgVectors == SeqsUpTo(ArgWords, MaxArgs)

\* parse_args taking any two arguments as a request to load
parse_args_any_option(args) ==
    IF Len(args) = 1 THEN "USAGE"
    ELSE IF Len(args) = 2 THEN "load"
    ELSE "USAGE"

\* parse_args, lines 43-59: what the argument vector selects
parse_args(args) ==
    IF Len(args) = 1 THEN "USAGE"
    ELSE IF Len(args) = 2
    THEN IF args[2] = "--load-data" THEN "load" ELSE "USAGE"
    ELSE "USAGE"

\* the calls the constructor of TweetDB makes: the connection, and db_exists
TweetDBCalls ==
    << StoreCall("MongoClient", "*"), StoreCall("list_database_names", "*") >>

\* main.py run with an argument vector: print the usage text, or construct
\* the TweetDB (a database exists once it holds a collection)
ParseArgs ==
    \E args \in ArgVectors :
        /\ call = NoCall
        /\ pc = "idle"
        /\ argv' = args
        /\ call' = Call("parse_args", "*", Len(args), FALSE, FALSE, 0)
        /\ IF parse_args(args) = "load"
           THEN /\ \E db_exists \in BOOLEAN :
                      /\ collection_list # {} => db_exists
                      /\ db' = TweetDB_init(db_exists)
                /\ ret' = "TweetDB"
                /\ store_calls' = TweetDBCalls
           ELSE /\ db' = db
                /\ ret' = "USAGE"
                /\ store_calls' = <<>>
        /\ UNCHANGED << collection_list, documents, files, pc, frame, events,
                        runs, value, gen >>

\* line 52: utils.load_raw_data(db, drop_old_data=True)
ParseArgsLoadRawData ==
    /\ call.op = "parse_args"
    /\ ret = "TweetDB"
    /\ LoadRawDataBegin("None", TRUE)

\* the program before it has run: no TweetDB has been constructed
InitMain ==
    /\ \E s \in StoreStates(1) :
          /\ collection_list = s.cl
          /\ documents = s.docs
    /\ db = "NoTweetDB"
    /\ files \in FileSystems
    /\ call = NoCall
    /\ ret = "None"
    /\ store_calls = <<>>
    /\ pc = "idle"
    /\ frame = NoFrame
    /\ events = <<>>
    /\ runs = <<>>
    /\ value = NoValue
    /\ argv = <<>>
    /\ gen = NoGen

NextMain ==
    \/ ParseArgs
    \/ ParseArgsLoadRawData
    \/ LoadRawDataStep

SpecMain == InitMain /\ [][NextMain]_vars
\* ---------------------------------------------------------------- batched
\* islice(iterator, n) made a tuple: up to n items drawn from the iterator
\* one by one, and the iterator after them
RECURSIVE islice(_, _, _)
islice(iterator, n, drawn) ==
    IF n = 0 \/ iterator = <<>> THEN [chunk |-> drawn, rest |-> iterator]
    ELSE islice(Tail(iterator), n - 1, Append(drawn, Head(iterator)))

\* batched(...): the call makes a generator and runs none of its body
Batched ==
    \E cursor \in SeqsUpTo(Tweets, MaxCursor), chunk_size \in (-1)..MaxChunk,
       show_progress_bar \in BOOLEAN, progress_bar_n_chunks \in (-1)..MaxChunk :
        /\ gen.state = "none"
        /\ gen' = [NoGen EXCEPT !.cursor = cursor,
                                !.chunk_size = chunk_size,
                                !.show_progress_bar = show_progress_bar,
                                !.progress_bar_n_chunks = progress_bar_n_chunks,
                                !.pending = cursor,
                                !.state = "created"]
        /\ UNCHANGED << db, collection_list, documents, files, call, ret,
                        store_calls, pc, frame, events, runs, value, argv >>

\* a generator that ends at a chunk shorter than chunk_size without yielding it
BatchedNext_drops_short_chunk ==
    /\ gen.state \in {"created", "suspended"}
    /\ IF gen.state = "created" /\ gen.chunk_size < 1
       THEN gen' = [gen EXCEPT !.state = "ValueError"]
       ELSE IF /\ gen.state = "created"
               /\ gen.show_progress_bar
               /\ gen.progress_bar_n_chunks <= 0
       THEN gen' = [gen EXCEPT !.state = "ValueError"]
       ELSE LET taken == islice(gen.pending, gen.chunk_size, <<>>)
            IN IF Len(taken.chunk) = gen.chunk_size
               THEN gen' = [gen EXCEPT
                               !.pending = taken.rest,
                               !.chunks = Append(@, taken.chunk),
                               !.progress_bar = IF gen.show_progress_bar
                                                THEN @ + 1 ELSE @,
                               !.state = "suspended"]
               ELSE gen' = [gen EXCEPT !.pending = taken.rest,
                                       !.state = "StopIteration"]
    /\ UNCHANGED << db, collection_list, documents, files, call, ret,
                    store_calls, pc, frame, events, runs, value, argv >>

\* next() on the generator: from its start, the two checks of the arguments
\* and the loop up to its first yield; from a yield, the loop up to the next
\* yield or to the end
BatchedNext ==
    /\ gen.state \in {"created", "suspended"}
    /\ IF gen.state = "created" /\ gen.chunk_size < 1
       THEN gen' = [gen EXCEPT !.state = "ValueError"]
       ELSE IF /\ gen.state = "created"
               /\ gen.show_progress_bar
               /\ gen.progress_bar_n_chunks <= 0
       THEN gen' = [gen EXCEPT !.state = "ValueError"]
       ELSE LET taken == islice(gen.pending, gen.chunk_size, <<>>)
            IN IF taken.chunk # <<>>
               THEN gen' = [gen EXCEPT
                               !.pending = taken.rest,
                               !.chunks = Append(@, taken.chunk),
                               !.progress_bar = IF gen.show_progress_bar
                                                THEN @ + 1 ELSE @,
                               !.state = "suspended"]
               ELSE gen' = [gen EXCEPT !.pending = taken.rest,
                                       !.state = "StopIteration"]
    /\ UNCHANGED << db, collection_list, documents, files, call, ret,
                    store_calls, pc, frame, events, runs, value, argv >>

NextBatched ==
    \/ Batched
    \/ BatchedNext

SpecBatched == Init /\ [][NextBatched]_vars

\* ------------------------------------------------------------------ claims
\* the last step sent method m to the store
Sent(m) == \E j \in 1..Len(store_calls) : store_calls[j].m = m

\* C1: create_collection(name, overwrite_old_collection=True) on a collection
\* that exists returns with the collection existing and holding no document.
C1_OverwriteLeavesEmptyCollection ==
    [][ ( /\ call'.op = "create_collection"
          /\ call'.flag = TRUE
          /\ call'.collection \in collection_list )
        => ( /\ ret' = "None"
             /\ call'.collection \in collection_list'
             /\ documents'[call'.collection] = <<>> ) ]_vars

IsLoad(ev) == ev.e = "load"

\* C2: two full reloads in succession that both return, over the same files
\* and with a store that applies every batch it is sent, end with the same
\* record count in the target collection.
C2_ReloadTwiceSameCount ==
    Len(runs) >= 2 =>
        ( ( /\ SelectSeq(runs[1].events, IsLoad) = SelectSeq(runs[2].events, IsLoad)
            /\ runs[1].ret = "None" /\ runs[2].ret = "None"
            /\ runs[1].clean /\ runs[2].clean )
          => runs[1].count = runs[2].count )

\* C3: insert_tweets with an empty record list, or with the name of a
\* collection that does not exist, returns False, sends no insert_many and
\* leaves the store as it was; and insert_many is only ever sent to a
\* collection the same call has just found in list_collection_names.
C3_RejectedInsertReturnsFalse ==
    [][ call'.op = "insert_tweets" =>
        ( /\ ( \/ call'.n_tweets = 0
               \/ (call'.n_tweets > 0 /\ call'.collection \notin collection_list) )
             => ( /\ ret' = "False"
                  /\ ~ Sent("insert_many")'
                  /\ UNCHANGED store )
          /\ \A j \in 1..Len(store_calls') :
                store_calls'[j].m = "insert_many"
                => ( /\ j > 1
                     /\ store_calls'[j - 1] = ListCall
                     /\ store_calls'[j].c = call'.collection
                     /\ call'.collection \in collection_list ) ) ]_vars

\* C4: a non-empty record list inserted with validate=True into a collection
\* that exists gives True exactly when the store acknowledged the batch and
\* inserted as many documents as were submitted, and False otherwise.
C4_ValidatedInsertCountsMatch ==
    ( /\ call.op = "insert_tweets"
      /\ call.flag = TRUE
      /\ call.n_tweets >= 1
      /\ call.collection \in collection_list )
    => ( /\ ret \in {"True", "False"}
         /\ Sent("insert_many")
         /\ ret = "True" <=> ( /\ call.acknowledged
                               /\ call.n_inserted = call.n_tweets ) )

\* an acknowledged batch of two of which the store inserted one: False
C4_Witness ==
    /\ call.op = "insert_tweets"
    /\ call.flag = TRUE
    /\ call.n_tweets = 2
    /\ call.collection \in collection_list
    /\ call.acknowledged
    /\ call.n_inserted = 1
    /\ ret = "False"

\* C5: every insert_tweets call of load_raw_data names the collection that
\* load_raw_data resolved as its target.
C5_InsertsGoToTarget ==
    pc = "report" => ( /\ call.op = "insert_tweets"
                       /\ call.collection = frame.raw_collection_name )

\* the run has the event e for file i of group k
HasEvent(evs, e, k, i) ==
    \E j \in 1..Len(evs) : evs[j].e = e /\ evs[j].k = k /\ evs[j].i = i

\* the insert of some file gave False
FailedAt(evs, j) == evs[j].e = "insert" /\ evs[j].result = "False"

\* C6: in every call of load_raw_data that ended, an insert that gave False is
\* followed at once by the error notice for that file; the call does not end
\* on that notice unless it returns; and when it returns after such a failure
\* it has loaded and inserted every data file of every group.
C6_FailedFileDoesNotHaltRun ==
    \A r \in 1..Len(runs) :
        LET evs == runs[r].events IN
        /\ \A j \in 1..Len(evs) :
              FailedAt(evs, j) => ( /\ j < Len(evs)
                                    /\ evs[j + 1].e = "error"
                                    /\ evs[j + 1].k = evs[j].k
                                    /\ evs[j + 1].i = evs[j].i )
        /\ (evs # <<>> /\ evs[Len(evs)].e = "error") => runs[r].ret = "None"
        /\ (runs[r].ret = "None" /\ \E j \in 1..Len(evs) : FailedAt(evs, j))
           => \A k \in Groups : \A i \in 1..files[k] :
                  /\ HasEvent(evs, "load", k, i)
                  /\ HasEvent(evs, "insert", k, i)

\* a run that returned after the first of its files failed and a later file,
\* in a later group, was inserted with success
C6_Witness ==
    \E r \in 1..Len(runs) :
        LET evs == runs[r].events IN
        /\ runs[r].ret = "None"
        /\ \E j, l \in 1..Len(evs) :
              /\ j < l
              /\ FailedAt(evs, j)
              /\ evs[l].e = "insert" /\ evs[l].result = "True"
              /\ evs[l].k > evs[j].k

\* C7: create_collection(name, overwrite_old_collection=False) on a
\* collection that exists returns None and changes neither the set of
\* collections nor the documents of any collection.
C7_NoOverwriteIsNoOp ==
    [][ ( /\ call'.op = "create_collection"
          /\ call'.flag = FALSE
          /\ call'.collection \in collection_list )
        => ( /\ ret' = "None"
             /\ UNCHANGED store
             /\ ~ Sent("create_collection")'
             /\ ~ Sent("drop_collection")' ) ]_vars

\* create_collection without overwrite found the collection, with documents
C7_Witness ==
    /\ call.op = "create_collection"
    /\ call.flag = FALSE
    /\ store_calls = << ListCall >>
    /\ ret = "None"
    /\ call.collection \in collection_list
    /\ documents[call.collection] # <<>>

\* the collection load_raw_data resolves for the name it is given
Resolved(name) == IF name = "None" THEN COLLECTION_NAMES_raw ELSE name

\* C8: load_raw_data with drop_old_data=False and a target that exists ends
\* at once: the store is unchanged, only list_collection_names was asked, no
\* file was loaded and nothing was inserted.
C8_ExistingTargetCancelsLoad ==
    [][ ( /\ pc = "idle"
          /\ call'.op = "load_raw_data"
          /\ call'.flag = FALSE
          /\ Resolved(call'.collection) \in collection_list )
        => ( /\ pc' = "idle"
             /\ ret' = "None"
             /\ UNCHANGED store
             /\ store_calls' = << ListCall >>
             /\ Len(runs') = Len(runs) + 1
             /\ runs'[Len(runs')].events = <<>> ) ]_vars

\* a cancelled load, with data files there to load and documents in the target
C8_Witness ==
    /\ pc = "idle"
    /\ call.op = "load_raw_data"
    /\ call.flag = FALSE
    /\ Len(runs) = 1
    /\ runs[1].ret = "None"
    /\ runs[1].events = <<>>
    /\ runs[1].target \in collection_list
    /\ runs[1].count > 0
    /\ store_calls = << ListCall >>
    /\ Sum(files, Groups) > 0

\* C9: insert_tweets given None as its record list returns False; it does
\* not raise.
C9_NoneListReturnsFalse ==
    (call.op = "insert_tweets" /\ call.n_tweets = -1) => ret = "False"

\* C10: update_tweets and delete_tweets raise RuntimeError exactly when the
\* collection exists, update_many / delete_many was sent, validate is True
\* and the result is not acknowledged; otherwise they return None; and for a
\* collection that does not exist they send no update_many / delete_many.
C10_OnlyUnacknowledgedRaises ==
    call.op \in {"update_tweets", "delete_tweets"} =>
        LET sent == Sent("update_many") \/ Sent("delete_many") IN
        /\ ret = "RuntimeError" <=> ( /\ call.collection \in collection_list
                                      /\ sent
                                      /\ call.flag = TRUE
                                      /\ ~ call.acknowledged )
        /\ ret # "RuntimeError" => ret = "None"
        /\ call.collection \notin collection_list => ~ sent

\* the documents of the collections named in names, counted once for each
\* time a collection that exists is named
RECURSIVE ExactSum(_)
ExactSum(names) ==
    IF names = <<>> THEN 0
    ELSE ( IF Head(names) \in collection_list THEN Len(documents[Head(names)])
           ELSE 0 ) + ExactSum(Tail(names))

\* C11: count_tweets given a list of names (and counting exactly) returns the
\* sum of the document counts of the listed names that exist, names that do
\* not exist adding nothing and raising nothing, and leaves the store as it
\* was.
C11_ListCountIsSumOfExisting ==
    [][ ( /\ call'.op = "count_tweets"
          /\ call'.collections.kind = "list"
          /\ call'.flag = FALSE )
        => ( /\ ret' = "int"
             /\ value'.kind = "int"
             /\ value'.n = ExactSum(call'.collections.names)
             /\ UNCHANGED store ) ]_vars

\* C12: collection_exists(name) returns a boolean, True exactly when the
\* collection is in the active database.
C12_CollectionExistsIsBoolean ==
    call.op = "collection_exists"
    => ( /\ ret \in {"True", "False"}
         /\ ret = "True" <=> call.collection \in collection_list )
\* C13: insert_tweets returns None exactly when both guards passed (a
\* non-empty list, a collection that exists), the batch was submitted and
\* validate is False; it returns True only when validate is True; and it
\* returns neither True nor None without having submitted the batch.
C13_InsertOutcomeIsTriState ==
    call.op = "insert_tweets"
    => ( /\ ret = "None" <=> ( /\ call.n_tweets >= 1
                               /\ call.collection \in collection_list
                               /\ Sent("insert_many")
                               /\ call.flag = FALSE )
         /\ ret = "True" => call.flag = TRUE
         /\ ret \in {"True", "None"} => Sent("insert_many") )

\* an unvalidated batch the store did not acknowledge: submitted, None
C13_Witness ==
    /\ call.op = "insert_tweets"
    /\ call.flag = FALSE
    /\ call.n_tweets = 2
    /\ ~call.acknowledged
    /\ Sent("insert_many")
    /\ ret = "None"

\* C14: query on a collection that is absent returns None and sends no find;
\* on a collection that exists, lazy=False returns the list of every document
\* the cursor yields, in order, and lazy=True returns the cursor itself with
\* nothing drawn from it.
C14_QueryLazyOrList ==
    call.op = "query"
    => LET yields == IF call.collection \in collection_list
                     THEN Found(documents[call.collection], call.query_dict,
                                call.limit_results)
                     ELSE <<>>
       IN /\ call.collection \notin collection_list
             => ( ret = "None" /\ ~ Sent("find") )
          /\ ( call.collection \in collection_list /\ call.flag = FALSE )
             => ( /\ ret = "list"
                  /\ value = Value("list", Len(yields), yields) )
          /\ ( call.collection \in collection_list /\ call.flag = TRUE )
             => ( /\ ret = "Cursor"
                  /\ value = Value("Cursor", 0, yields) )

\* the argument vector is exactly a program name followed by --load-data
IsLoadData(args) == Len(args) = 2 /\ args[2] = "--load-data"

\* load_raw_data was called on the default collection with drop_old_data=True
ReloadBegun ==
    \/ /\ pc # "idle"
       /\ frame.raw_collection_name = COLLECTION_NAMES_raw
       /\ frame.drop_old_data = TRUE
    \/ /\ Len(runs) = 1
       /\ runs[1].target = COLLECTION_NAMES_raw
       /\ runs[1].drop_old_data = TRUE

\* C15: parse_args starts a full reload (load_raw_data with
\* drop_old_data=True) if and only if the argument vector is exactly a program
\* name followed by --load-data; with any other vector it prints the usage
\* text and neither connects to the database nor acts on the store.
C15_ReloadIffLoadDataOption ==
    [][ call'.op # "none"
        => IF IsLoadData(argv')
           THEN /\ db' # "NoTweetDB"
                /\ \/ ( call'.op = "parse_args" /\ ret' = "TweetDB"
                        /\ pc' = "idle" /\ UNCHANGED store )
                   \/ ReloadBegun'
           ELSE /\ ret' = "USAGE"
                /\ db' = "NoTweetDB"
                /\ store_calls' = <<>>
                /\ UNCHANGED store
                /\ pc' = "idle"
                /\ runs' = <<>> ]_vars

\* a reload that has inserted a file after [main.py, --load-data]
C15_Witness ==
    /\ argv = << "main.py", "--load-data" >>
    /\ ReloadBegun
    /\ Sent("insert_many")

\* file (k, i) comes before file (k2, i2) in the order of the catalog and of
\* the file lists
FileBefore(k, i, k2, i2) == k < k2 \/ (k = k2 /\ i < i2)

\* the events of a run are those of a loop that takes one file at a time: a
\* load starts a run or follows the insert (or its error notice) of an
\* earlier file, and an insert directly follows the load of its own file; so
\* the files of the events never go back in the order of the catalog
OneFileAtATime(ev) ==
    \A j \in 1..Len(ev) :
        /\ ev[j].e = "load"
           => ( j > 1 => /\ ev[j-1].e \in {"insert", "error"}
                         /\ FileBefore(ev[j-1].k, ev[j-1].i, ev[j].k, ev[j].i) )
        /\ ev[j].e = "insert"
           => /\ j > 1
              /\ ev[j-1].e = "load"
              /\ ev[j-1].k = ev[j].k /\ ev[j-1].i = ev[j].i
        /\ ev[j].e = "error"
           => /\ j > 1
              /\ ev[j-1].e = "insert"
              /\ ev[j-1].k = ev[j].k /\ ev[j-1].i = ev[j].i

\* the number of loads of file (k, i) among the events
TimesLoaded(ev, k, i) ==
    Cardinality({ j \in 1..Len(ev) : ev[j].e = "load" /\ ev[j].k = k /\ ev[j].i = i })

\* C16 as stated: at the end of a run of load_raw_data the files were taken one
\* at a time, in the order of the catalog, and every file of a group whose
\* files were listed has been loaded exactly once.
C16_EveryListedFileLoadedOnce ==
    \A r \in 1..Len(runs) :
        LET ev == runs[r].events
        IN /\ OneFileAtATime(ev)
           /\ \A k \in Groups :
                 ( \E j \in 1..Len(ev) : ev[j].k = k )
                 => \A i \in 1..files[k] : TimesLoaded(ev, k, i) = 1

\* the loop has reached file (k, i): a file of a group before the current
\* one, or of the current group up to the current file
FileReached(k, i) ==
    /\ k \in Groups
    /\ i \in 1..files[k]
    /\ \/ k < frame.k
       \/ /\ k = frame.k
          /\ pc \in {"file", "insert", "report"}
          /\ i < frame.i + (IF pc = "file" THEN 0 ELSE 1)

\* C16 (amended): load_raw_data takes the files one at a time, in the order
\* of the catalog: a file's load and insert are over before the next load, no
\* file is loaded or inserted twice, and while the run goes on (up to its
\* return) every file reached so far has been loaded exactly once. A run that
\* ends on an exception leaves the files after the failing one unloaded.
C16_SequentialLoads ==
    /\ OneFileAtATime(events)
    /\ \A r \in 1..Len(runs) : OneFileAtATime(runs[r].events)
    /\ pc \in {"group", "file", "insert", "report"}
       => /\ \A j \in 1..Len(events) : FileReached(events[j].k, events[j].i)
          /\ \A k \in Groups : \A i \in 1..files[k] :
                FileReached(k, i) => TimesLoaded(events, k, i) = 1

\* the loop at its return, with two files in two groups loaded and inserted
C16_Witness ==
    /\ pc = "group"
    /\ frame.k > Len(RAW_DATA_PATHS)
    /\ Cardinality({ k \in Groups : files[k] = 1 }) = 2
    /\ Len(events) >= 4

\* the events of the run under way, or of the run that has just ended
RunEvents == IF pc = "idle" /\ runs # <<>> THEN runs[Len(runs)].events ELSE events

\* the load of a file has just met text that is no JSON
ParseFailure ==
    /\ call.op = "file_loader"
    /\ RunEvents # <<>>
    /\ RunEvents[Len(RunEvents)].e = "load"
    /\ RunEvents[Len(RunEvents)].result = "JSONDecodeError"

\* C17: a parse failure of the JSON loader is not caught by load_raw_data: the
\* step that meets it ends the run with that exception, the load of the
\* malformed file being the last thing the run did (no file is loaded or
\* inserted after it), and leaves the store, with the records of the files
\* inserted before, as it was.
C17_ParseFailureAbortsRun ==
    [][ ParseFailure'
        => /\ pc = "file"
           /\ pc' = "idle"
           /\ ret' = "JSONDecodeError"
           /\ UNCHANGED store
           /\ runs' = Append(runs,
                  [ret |-> "JSONDecodeError",
                   target |-> frame.raw_collection_name,
                   drop_old_data |-> frame.drop_old_data,
                   count |-> CountOf(collection_list, documents,
                                     frame.raw_collection_name),
                   events |-> Append(events,
                       Event("load", frame.k, frame.i, -1, "JSONDecodeError")),
                   clean |-> frame.clean])
           /\ \A j \in 1..Len(events) :
                 FileBefore(events[j].k, events[j].i, frame.k, frame.i) ]_vars

\* a run ended by a malformed second file, the records of the first file
\* still in the collection
C17_Witness ==
    /\ ParseFailure
    /\ pc = "idle"
    /\ Len(runs) = 1
    /\ runs[1].ret = "JSONDecodeError"
    /\ \E j \in 1..Len(runs[1].events) :
          /\ runs[1].events[j].e = "insert"
          /\ runs[1].events[j].result = "True"
    /\ COLLECTION_NAMES_raw \in collection_list
    /\ Len(documents[COLLECTION_NAMES_raw]) >= 1

\* the chunks of a sequence of chunks, joined in order
RECURSIVE Concat(_)
Concat(chunks) ==
    IF chunks = <<>> THEN <<>> ELSE Head(chunks) \o Concat(Tail(chunks))

\* the generator is over: exhausted, or ended by an exception
Over == gen.state \in {"StopIteration", "ValueError"}

\* the chunks yielded are the cursor's documents cut into ceil(n / chunk_size)
\* chunks of chunk_size, the last one possibly shorter
ChunksOfCursor ==
    /\ Concat(gen.chunks) = gen.cursor
    /\ \A j \in 1..Len(gen.chunks) :
          /\ gen.chunks[j] # <<>>
          /\ j < Len(gen.chunks) => Len(gen.chunks[j]) = gen.chunk_size
          /\ Len(gen.chunks[j]) <= gen.chunk_size
    /\ Len(gen.chunks) = (Len(gen.cursor) + gen.chunk_size - 1) \div gen.chunk_size

\* C18 as stated: for every cursor and every chunk_size >= 1 the generator,
\* once over, has yielded the cursor's documents in chunks of chunk_size (the
\* last possibly shorter, none empty), ceil(n / chunk_size) of them; for
\* chunk_size < 1 it raised ValueError and yielded nothing.
C18_ChunksForEveryChunkSize ==
    Over => IF gen.chunk_size >= 1 THEN ChunksOfCursor
            ELSE gen.state = "ValueError" /\ gen.chunks = <<>>

\* C18 (amended): for every cursor and every chunk_size >= 1, when no
\* progress bar is asked for or progress_bar_n_chunks > 0, the generator yields
\* the cursor's documents in order in chunks of chunk_size (the last possibly
\* shorter, none empty), nothing being lost at any point, and is over after
\* ceil(n / chunk_size) chunks; for chunk_size < 1, and for a progress bar
\* asked for with progress_bar_n_chunks <= 0, it raises ValueError and yields
\* nothing.
C18_ChunksUnlessBarUnsized ==
    /\ gen.state \in {"suspended", "StopIteration"}
       => Concat(gen.chunks) \o gen.pending = gen.cursor
    /\ Over
       => IF /\ gen.chunk_size >= 1
             /\ ( ~ gen.show_progress_bar \/ gen.progress_bar_n_chunks > 0 )
          THEN gen.state = "StopIteration" /\ ChunksOfCursor
          ELSE gen.state = "ValueError" /\ gen.chunks = <<>>

\* three documents in chunks of two: a full chunk, then a chunk of one
C18_Witness ==
    /\ gen.state = "StopIteration"
    /\ Len(gen.cursor) = 3
    /\ gen.chunk_size = 2
    /\ Len(gen.chunks) = 2
    /\ Len(gen.chunks[2]) = 1

=============================================================================
